---- MODULE Spec2Model ----
(***************************************************************************)
(* envfury: typed retrieval of process environment variables.              *)
(*                                                                         *)
(* One caller thread runs maybe / must / or / or_else / or_parse           *)
(* (src/src/lib.rs), step by step; the rest of the process may change the  *)
(* environment between any two steps (SetVar).  T is instantiated with     *)
(* u8 and String (std::str::FromStr) and with Custom<u8>, whose override   *)
(* is the one of the documentation example in src/src/custom.rs.           *)
(***************************************************************************)
EXTENDS Integers, Sequences, FiniteSets, TLC

VARIABLES
    env,      \* the process environment: key -> OS-level value
    sets,     \* number of changes other threads made to the environment so far
    pc,       \* position of the caller: idle, var, parse, ret, default, done
    fn,       \* the function called
    ty,       \* the type parameter T of the call
    key,      \* the key argument
    dflt,     \* the default argument (a value of T, a callback, or text)
    val,      \* the local `val`: text after lib.rs:78, maybe's result after it returns
    result,   \* what the call returns
    reads,    \* history: reads of the environment by the current call
    readLog,  \* history: the OS-level values those reads returned
    parses,   \* history: conversions of the variable's text by the current call
    dparses,  \* history: conversions of the default text by the current call
    fcalls,   \* history: invocations of or_else's callback by the current call
    prev,     \* history: the previous completed call and its result
    qCur,     \* history: the environment is unchanged since the current call began
    qPrev     \* history: the environment is unchanged since the previous call began

vars == <<env, sets, pc, fn, ty, key, dflt, val, result, reads, readLog,
          parses, dparses, fcalls, prev, qCur, qPrev>>

(***************************************************************************)
(* Bounds                                                                  *)
(***************************************************************************)
\* changes other threads make to the environment in one run
MaxSets == 1

(***************************************************************************)
(* Text.  A text is a sequence of characters.                              *)
(***************************************************************************)
T_empty == << >>
T_one   == <<"o", "n", "e">>
T_two   == <<"t", "w", "o">>
T_three == <<"t", "h", "r", "e", "e">>
T_5     == <<"5">>
T_300   == <<"3", "0", "0">>

Texts == {T_empty, T_one, T_two, T_three, T_5, T_300}

Keys == {"K", "PORT"}

Types == {"u8", "String", "Custom_u8"}

Fns == {"maybe", "must", "or", "or_else", "or_parse"}

(***************************************************************************)
(* Values of T, with the type they belong to.                              *)
(***************************************************************************)
U8(n)     == [ty |-> "u8", n |-> n, s |-> << >>]
Str(s)    == [ty |-> "String", n |-> 0, s |-> s]
Custom(n) == [ty |-> "Custom_u8", n |-> n, s |-> << >>]
Text(s)   == [ty |-> "text", n |-> 0, s |-> s]
NoArg     == [ty |-> "none", n |-> 0, s |-> << >>]

\* Result<_, _>
Ok(v)  == [ok |-> TRUE, val |-> v]
Err(e) == [ok |-> FALSE, err |-> e]

\* Option<_>
None    == [some |-> FALSE]
Some(v) == [some |-> TRUE, val |-> v]

\* Result<String, std::env::VarError>, what std::env::var returns
NotPresent   == [kind |-> "NotPresent", text |-> << >>]
NotUnicode   == [kind |-> "NotUnicode", text |-> << >>]
Present(s)   == [kind |-> "Ok", text |-> s]

RawValues == {NotPresent, NotUnicode} \cup {Present(s) : s \in Texts}

(***************************************************************************)
(* The error taxonomy, lib.rs:9-68                                         *)
(***************************************************************************)
NonUnicode       == [tag |-> "NonUnicode"]
ParseErr(e)      == [tag |-> "Parse", inner |-> e]
NotSet           == [tag |-> "NotSet"]
MustValue(r)     == [tag |-> "Value", of |-> "MustError", inner |-> r]
OrParseValue(r)  == [tag |-> "Value", of |-> "OrParseError", inner |-> r]
ParseDefault(e)  == [tag |-> "ParseDefault", inner |-> e]

Error_new(k, reason) == [key |-> k, reason |-> reason]

\* (map)(reason), the closure being known by the constructor it names
call_map(map, reason) ==
    CASE map = "MustError::Value"    -> MustValue(reason)
      [] map = "OrParseError::Value" -> OrParseValue(reason)

map_reason(e, map) == [key |-> e.key, reason |-> call_map(map, e.reason)]

(***************************************************************************)
(* Conversions from text                                                   *)
(***************************************************************************)
Digits == <<"0", "1", "2", "3", "4", "5", "6", "7", "8", "9">>

IsDigit(c) == \E i \in 1..10 : Digits[i] = c

to_digit(c) == (CHOOSE i \in 1..10 : Digits[i] = c) - 1

\* <u8 as std::str::FromStr>::from_str on the digits left, acc so far
RECURSIVE u8_digits(_, _)
u8_digits(s, acc) ==
    IF s = << >> THEN Ok(U8(acc))
    ELSE IF ~IsDigit(Head(s)) THEN Err("invalid digit found in string")
    ELSE IF acc * 10 + to_digit(Head(s)) > 255
         THEN Err("number too large to fit in target type")
    ELSE u8_digits(Tail(s), acc * 10 + to_digit(Head(s)))

u8_from_str(s) ==
    IF s = << >> THEN Err("cannot parse integer from empty string")
    ELSE IF s = <<"+">> THEN Err("invalid digit found in string")
    ELSE IF Head(s) = "+" THEN u8_digits(Tail(s), 0)
    ELSE u8_digits(s, 0)

\* <String as std::str::FromStr>::from_str never fails
String_from_str(s) == Ok(Str(s))

\* impl envfury::custom::FromStr for u8, custom.rs:12-24
custom_u8_from_str(s) ==
    IF s = T_one THEN Ok(1)
    ELSE IF s = T_two THEN Ok(2)
    ELSE Err("not \"one\" or \"two\"")

\* bug: the wrapper reports its own error instead of the override's
Custom_from_str_own_error(s) ==
    LET r == custom_u8_from_str(s)
    IN  IF r.ok THEN Ok(Custom(r.val)) ELSE Err("invalid custom value")

\* impl std::str::FromStr for Custom<T>, custom.rs:49-52
Custom_from_str(s) ==
    LET r == custom_u8_from_str(s)
    IN  IF r.ok THEN Ok(Custom(r.val)) ELSE Err(r.err)

\* str::parse::<T>
parse(t, s) ==
    CASE t = "u8"        -> u8_from_str(s)
      [] t = "String"    -> String_from_str(s)
      [] t = "Custom_u8" -> Custom_from_str(s)

(***************************************************************************)
(* The arguments a call can take                                           *)
(***************************************************************************)
ValuesOf(t) ==
    CASE t = "u8"        -> {U8(30), U8(5)}
      [] t = "String"    -> {Str(T_empty), Str(T_two)}
      [] t = "Custom_u8" -> {Custom(2), Custom(7)}

DefaultsOf(f, t) ==
    CASE f \in {"maybe", "must"} -> {NoArg}
      [] f \in {"or", "or_else"} -> ValuesOf(t)
      [] f = "or_parse"          -> {Text(s) : s \in Texts}

NoCall == [ty |-> "none", fn |-> "none", key |-> "none", dflt |-> NoArg,
           result |-> Ok(NoArg)]

(***************************************************************************)
(* Init: no call is running; the environment holds anything.               *)
(***************************************************************************)
Init ==
    /\ env \in [Keys -> RawValues]
    /\ sets = 0
    /\ pc = "idle"
    /\ fn = "none"
    /\ ty = "none"
    /\ key = "none"
    /\ dflt = NoArg
    /\ val = None
    /\ result = Ok(NoArg)
    /\ reads = 0
    /\ readLog = << >>
    /\ parses = 0
    /\ dparses = 0
    /\ fcalls = 0
    /\ prev = NoCall
    /\ qCur = FALSE
    /\ qPrev = FALSE

(***************************************************************************)
(* Another thread of the process sets or removes a variable.               *)
(***************************************************************************)
SetVar ==
    /\ sets < MaxSets
    /\ \E k \in Keys, r \in RawValues :
        /\ env[k] # r
        /\ env' = [env EXCEPT ![k] = r]
    /\ sets' = sets + 1
    /\ qCur' = FALSE
    /\ qPrev' = FALSE
    /\ UNCHANGED <<pc, fn, ty, key, dflt, val, result, reads, readLog,
                   parses, dparses, fcalls, prev>>

(***************************************************************************)
(* The caller enters one of the five functions.                            *)
(***************************************************************************)
SameCall(p, f, t, k, d) ==
    /\ p.ty = t
    /\ p.fn = f
    /\ p.key = k
    /\ p.dflt = d

Call ==
    /\ pc = "idle"
    /\ \E f \in Fns, t \in Types, k \in Keys :
        \E d \in DefaultsOf(f, t) :
            /\ fn' = f
            /\ ty' = t
            /\ key' = k
            /\ dflt' = d
            \* only a repetition of the previous call is compared with it
            /\ prev' = IF SameCall(prev, f, t, k, d) THEN prev ELSE NoCall
    /\ pc' = "var"
    /\ qCur' = TRUE
    /\ UNCHANGED <<env, sets, val, result, reads, readLog, parses, dparses,
                   fcalls, qPrev>>

\* std::env::var(key), lib.rs:78
env_var(k) == env[k]

\* bug: a value that is not valid Unicode is taken for an absent variable
maybe_match_lossy(k, r) ==
    CASE r.kind = "Ok"         -> [pc |-> "parse", val |-> Text(r.text)]
      [] r.kind = "NotPresent" -> [pc |-> "ret", val |-> Ok(None)]
      [] r.kind = "NotUnicode" -> [pc |-> "ret", val |-> Ok(None)]

\* bug: an empty value is taken for an absent variable
maybe_match_empty_unset(k, r) ==
    CASE r.kind = "Ok" /\ r.text # << >> ->
            [pc |-> "parse", val |-> Text(r.text)]
      [] r.kind = "Ok" /\ r.text = << >> -> [pc |-> "ret", val |-> Ok(None)]
      [] r.kind = "NotPresent" -> [pc |-> "ret", val |-> Ok(None)]
      [] r.kind = "NotUnicode" ->
            [pc |-> "ret", val |-> Err(Error_new(k, NonUnicode))]

\* bug: the variable is taken out of the environment when it is read
maybe_var_consuming ==
    /\ pc = "var"
    /\ LET r == env_var(key)
       IN  /\ reads' = reads + 1
           /\ readLog' = Append(readLog, r)
           /\ val' = IF r.kind = "Ok" THEN Text(r.text)
                     ELSE IF r.kind = "NotPresent" THEN Ok(None)
                     ELSE Err(Error_new(key, NonUnicode))
           /\ pc' = IF r.kind = "Ok" THEN "parse" ELSE "ret"
    /\ env' = [env EXCEPT ![key] = NotPresent]
    /\ UNCHANGED <<sets, fn, ty, key, dflt, result, parses, dparses,
                   fcalls, prev, qCur, qPrev>>

\* the match of lib.rs:78-82: where maybe goes on, and with what
maybe_match(k, r) ==
    CASE r.kind = "Ok"         -> [pc |-> "parse", val |-> Text(r.text)]
      [] r.kind = "NotPresent" -> [pc |-> "ret", val |-> Ok(None)]
      [] r.kind = "NotUnicode" ->
            [pc |-> "ret", val |-> Err(Error_new(k, NonUnicode))]

\* lib.rs:78-82
maybe_var ==
    /\ pc = "var"
    /\ LET r == env_var(key)
       IN  /\ reads' = reads + 1
           /\ readLog' = Append(readLog, r)
           /\ val' = maybe_match(key, r).val
           /\ pc' = maybe_match(key, r).pc
    /\ UNCHANGED <<env, sets, fn, ty, key, dflt, result, parses, dparses,
                   fcalls, prev, qCur, qPrev>>

\* bug: the conversion error is dropped from the reason
maybe_parsed_drops_cause(t, k, s) ==
    LET r == parse(t, s)
    IN  IF r.ok THEN Ok(Some(r.val))
        ELSE Err(Error_new(k, NonUnicode))

\* lib.rs:83-86
maybe_parsed(t, k, s) ==
    LET r == parse(t, s)
    IN  IF r.ok THEN Ok(Some(r.val))
        ELSE Err(Error_new(k, ParseErr(r.err)))

maybe_parse ==
    /\ pc = "parse"
    /\ val' = maybe_parsed(ty, key, val.s)
    /\ parses' = parses + 1
    /\ pc' = "ret"
    /\ UNCHANGED <<env, sets, fn, ty, key, dflt, result, reads, readLog,
                   dparses, fcalls, prev, qCur, qPrev>>

\* maybe::<T>(key) called directly: lib.rs:73-87 returns to the caller
maybe ==
    /\ pc = "ret"
    /\ fn = "maybe"
    /\ result' = val
    /\ pc' = "done"
    /\ UNCHANGED <<env, sets, fn, ty, key, dflt, val, reads, readLog, parses,
                   dparses, fcalls, prev, qCur, qPrev>>

\* bug: an absent variable is reported as a value error
must_match_no_notset(k, m) ==
    IF m.ok
    THEN IF m.val.some THEN Ok(m.val.val)
         ELSE Err(Error_new(k, MustValue(NonUnicode)))
    ELSE Err(map_reason(m.err, "MustError::Value"))

\* lib.rs:97-101
must_match(k, m) ==
    IF m.ok
    THEN IF m.val.some THEN Ok(m.val.val)
         ELSE Err(Error_new(k, NotSet))
    ELSE Err(map_reason(m.err, "MustError::Value"))

must ==
    /\ pc = "ret"
    /\ fn = "must"
    /\ result' = must_match(key, val)
    /\ pc' = "done"
    /\ UNCHANGED <<env, sets, fn, ty, key, dflt, val, reads, readLog, parses,
                   dparses, fcalls, prev, qCur, qPrev>>

\* bug: the default wins over the value found
unwrap_or_default_first(o, d) == d

\* Option::unwrap_or
unwrap_or(o, d) == IF o.some THEN o.val ELSE d

\* lib.rs:112-113
or_body(m, d) ==
    IF m.ok THEN Ok(unwrap_or(m.val, d)) ELSE Err(m.err)

or ==
    /\ pc = "ret"
    /\ fn = "or"
    /\ result' = or_body(val, dflt)
    /\ pc' = "done"
    /\ UNCHANGED <<env, sets, fn, ty, key, dflt, val, reads, readLog, parses,
                   dparses, fcalls, prev, qCur, qPrev>>

\* bug: the callback is invoked eagerly, as in unwrap_or(default())
or_else_invokes_eagerly(m) == m.ok

\* whether lib.rs:125-126 invokes `default`: Option::unwrap_or_else on None
or_else_invokes(m) == m.ok /\ ~m.val.some

\* lib.rs:125-126; the callback is known by the value it returns
or_else_body(m, f) ==
    IF ~m.ok THEN Err(m.err)
    ELSE IF or_else_invokes(m) THEN Ok(f)
    ELSE Ok(m.val.val)

or_else ==
    /\ pc = "ret"
    /\ fn = "or_else"
    /\ result' = or_else_body(val, dflt)
    /\ fcalls' = IF or_else_invokes(val) THEN fcalls + 1 ELSE fcalls
    /\ pc' = "done"
    /\ UNCHANGED <<env, sets, fn, ty, key, dflt, val, reads, readLog, parses,
                   dparses, prev, qCur, qPrev>>

\* lib.rs:142: maybe(key).map_err(|err| err.map_reason(OrParseError::Value))
or_parse_map_err(m) ==
    IF m.ok THEN m ELSE Err(map_reason(m.err, "OrParseError::Value"))

\* bug: before falling back to the default, or_parse looks the variable up
\* a second time
or_parse_rereads ==
    /\ pc = "ret"
    /\ fn = "or_parse"
    /\ LET m == IF val.ok THEN val
                 ELSE Err(map_reason(val.err, "OrParseError::Value"))
       IN  IF ~m.ok
           THEN /\ result' = m
                /\ pc' = "done"
                /\ UNCHANGED <<reads, readLog>>
           ELSE IF m.val.some
           THEN /\ result' = Ok(m.val.val)
                /\ pc' = "done"
                /\ UNCHANGED <<reads, readLog>>
           ELSE /\ result' = result
                /\ reads' = reads + 1
                /\ readLog' = Append(readLog, env_var(key))
                /\ pc' = IF env_var(key).kind = "NotPresent"
                          THEN "default" ELSE "var"
    /\ UNCHANGED <<env, sets, fn, ty, key, dflt, val, parses, dparses,
                   fcalls, prev, qCur, qPrev>>

\* lib.rs:142-145
or_parse ==
    /\ pc = "ret"
    /\ fn = "or_parse"
    /\ LET m == or_parse_map_err(val)
       IN  IF ~m.ok
           THEN /\ result' = m
                /\ pc' = "done"
           ELSE IF m.val.some
           THEN /\ result' = Ok(m.val.val)
                /\ pc' = "done"
           ELSE /\ result' = result
                /\ pc' = "default"
    /\ UNCHANGED <<env, sets, fn, ty, key, dflt, val, reads, readLog, parses,
                   dparses, fcalls, prev, qCur, qPrev>>

\* bug: a bad default is reported like a bad value
or_parse_default_as_value(t, k, d) ==
    LET r == parse(t, d.s)
    IN  IF r.ok THEN Ok(r.val)
        ELSE Err(Error_new(k, OrParseValue(ParseErr(r.err))))

\* lib.rs:146-150
or_parse_default_body(t, k, d) ==
    LET r == parse(t, d.s)
    IN  IF r.ok THEN Ok(r.val)
        ELSE Err(Error_new(k, ParseDefault(r.err)))

or_parse_default ==
    /\ pc = "default"
    /\ result' = or_parse_default_body(ty, key, dflt)
    /\ dparses' = dparses + 1
    /\ pc' = "done"
    /\ UNCHANGED <<env, sets, fn, ty, key, dflt, val, reads, readLog, parses,
                   fcalls, prev, qCur, qPrev>>

\* The call has returned; its frame is dropped and its result remembered.
Return ==
    /\ pc = "done"
    /\ prev' = [ty |-> ty, fn |-> fn, key |-> key, dflt |-> dflt,
                result |-> result]
    /\ qPrev' = qCur
    /\ qCur' = FALSE
    /\ pc' = "idle"
    /\ fn' = "none"
    /\ ty' = "none"
    /\ key' = "none"
    /\ dflt' = NoArg
    /\ val' = None
    /\ result' = Ok(NoArg)
    /\ reads' = 0
    /\ readLog' = << >>
    /\ parses' = 0
    /\ dparses' = 0
    /\ fcalls' = 0
    /\ UNCHANGED <<env, sets>>

Next ==
    \/ SetVar
    \/ Call
    \/ maybe_var
    \/ maybe_parse
    \/ maybe
    \/ must
    \/ or
    \/ or_else
    \/ or_parse
    \/ or_parse_default
    \/ Return

Spec == Init /\ [][Next]_vars

(***************************************************************************)
(* Properties                                                              *)
(***************************************************************************)
\* the call has returned and this is what its read of the environment saw
Done == pc = "done" /\ Len(readLog) >= 1

Saw == readLog[1]

SawText == Done /\ Saw.kind = "Ok"

SawParseable == SawText /\ parse(ty, Saw.text).ok

SawRejected == SawText /\ ~parse(ty, Saw.text).ok

SawAbsent == Done /\ Saw.kind = "NotPresent"

SawNonUnicode == Done /\ Saw.kind = "NotUnicode"

\* C1: when the variable holds text that T's conversion accepts, every
\* function succeeds with the parse of that text (maybe wraps it in Some),
\* whatever the default is.
C1_ParsedValueReturned ==
    SawParseable =>
        LET v == parse(ty, Saw.text).val
        IN  /\ fn = "maybe" => result = Ok(Some(v))
            /\ fn \in {"must", "or", "or_else", "or_parse"} => result = Ok(v)

\* or_parse has returned the value found although its default is no T
C1_Witness ==
    /\ SawParseable
    /\ fn = "or_parse"
    /\ ~parse(ty, dflt.s).ok
    /\ result = Ok(parse(ty, Saw.text).val)

\* C2: when the variable is absent, maybe succeeds with None and must fails
\* with NotSet and the queried key.
C2_AbsentMaybeMust ==
    SawAbsent =>
        /\ fn = "maybe" => result = Ok(None)
        /\ fn = "must" => result = Err([key |-> key, reason |-> NotSet])

C2_Witness ==
    /\ SawAbsent
    /\ fn = "must"
    /\ ~result.ok
    /\ result.err.reason.tag = "NotSet"
    /\ result.err.key = "PORT"

\* C3: when the variable is absent, or returns its default unchanged,
\* or_else returns what the callback returns, and or_parse returns the parse
\* of the default text, or ParseDefault(e) with the queried key when the
\* default text is rejected with e.
C3_AbsentDefaults ==
    SawAbsent =>
        /\ fn = "or" => result = Ok(dflt)
        /\ fn = "or_else" => result = Ok(dflt)
        /\ fn = "or_parse" =>
              LET d == parse(ty, dflt.s)
              IN  result = IF d.ok THEN Ok(d.val)
                           ELSE Err([key |-> key,
                                     reason |-> ParseDefault(d.err)])

C3_Witness ==
    /\ SawAbsent
    /\ fn = "or_parse"
    /\ ty = "u8"
    /\ dflt.s = T_three
    /\ ~result.ok
    /\ result.err.reason.tag = "ParseDefault"
    /\ result.err.key = key

\* C4: when the variable holds text that T's conversion rejects with e,
\* every function fails with the queried key: maybe, or and or_else with
\* Parse(e), must with Value(Parse(e)), or_parse with Value(Parse(e)) and
\* never ParseDefault.
C4_RejectedText ==
    SawRejected =>
        LET e == parse(ty, Saw.text).err
        IN  /\ ~result.ok
            /\ result.err.key = key
            /\ fn \in {"maybe", "or", "or_else"} =>
                  result.err.reason = ParseErr(e)
            /\ fn = "must" => result.err.reason = MustValue(ParseErr(e))
            /\ fn = "or_parse" =>
                  result.err.reason = OrParseValue(ParseErr(e))
            /\ result.err.reason.tag # "ParseDefault"

\* or_parse with a default that is no T either reports the value, not the
\* default
C4_Witness ==
    /\ SawRejected
    /\ fn = "or_parse"
    /\ ~parse(ty, dflt.s).ok
    /\ ~result.ok
    /\ result.err.reason.tag = "Value"
    /\ result.err.reason.inner.tag = "Parse"

\* C5: when the variable holds a value that is not valid Unicode, no
\* conversion is attempted, no default is used, and every function fails
\* with the queried key: maybe, or and or_else with NonUnicode, must and
\* or_parse with Value(NonUnicode).
C5_NonUnicode ==
    SawNonUnicode =>
        /\ parses = 0
        /\ dparses = 0
        /\ fcalls = 0
        /\ ~result.ok
        /\ result.err.key = key
        /\ fn \in {"maybe", "or", "or_else"} =>
              result.err.reason = NonUnicode
        /\ fn = "must" => result.err.reason = MustValue(NonUnicode)
        /\ fn = "or_parse" => result.err.reason = OrParseValue(NonUnicode)

C5_Witness ==
    /\ SawNonUnicode
    /\ fn = "or_parse"
    /\ parse(ty, dflt.s).ok
    /\ ~result.ok
    /\ result.err.reason.inner = NonUnicode

\* C6: or_else invokes its callback exactly once when the variable is
\* absent and never otherwise (set, parseable or not, or not valid Unicode);
\* it invokes it only after the lookup of the environment has completed, and
\* no other function invokes a callback.
C6_LazyCallback ==
    [][ /\ fcalls' > fcalls =>
              /\ fn = "or_else"
              /\ reads = 1
              /\ fcalls' = 1
        /\ (pc # "done" /\ pc' = "done" /\ fn = "or_else") =>
              fcalls' = IF readLog'[1].kind = "NotPresent" THEN 1 ELSE 0
      ]_vars

\* or_else has returned what its callback returned, having invoked it once
\* after its one read found the variable absent
C6_Witness ==
    /\ SawAbsent
    /\ fn = "or_else"
    /\ fcalls = 1
    /\ reads = 1
    /\ result = Ok(dflt)

\* C7: parsing through Custom<T> gives the override's outcome: Custom(v)
\* when the override returns v and the override's error unchanged when it
\* fails.  must::<Custom<u8>> yields Custom(1) for "one" and, for "three",
\* an error with the queried key and reason
\* Value(Parse(`not "one" or "two"`)).
C7_CustomDelegates ==
    /\ (pc = "ret" /\ ty = "Custom_u8" /\ readLog[1].kind = "Ok") =>
          LET o == custom_u8_from_str(readLog[1].text)
          IN  val = IF o.ok THEN Ok(Some(Custom(o.val)))
                    ELSE Err([key |-> key, reason |-> ParseErr(o.err)])
    /\ (SawText /\ ty = "Custom_u8" /\ fn = "must") =>
          LET o == custom_u8_from_str(Saw.text)
          IN  /\ result = IF o.ok THEN Ok(Custom(o.val))
                          ELSE Err([key |-> key,
                                    reason |-> MustValue(ParseErr(o.err))])
              /\ Saw.text = T_one => result = Ok(Custom(1))
              /\ Saw.text = T_three =>
                    result = Err([key |-> key,
                                  reason |-> MustValue(
                                      ParseErr("not \"one\" or \"two\""))])

C7_Witness ==
    /\ SawText
    /\ ty = "Custom_u8"
    /\ fn = "must"
    /\ key = "K"
    /\ Saw.text = T_three
    /\ ~result.ok
    /\ result.err.key = "K"
    /\ result.err.reason.inner.inner = "not \"one\" or \"two\""

\* C8: a call of maybe, must or or that repeats the previous call (same
\* function, type, key and default), the environment being unchanged since
\* that call began, returns a result equal to its result.
C8_Idempotent ==
    (/\ pc = "done"
     /\ fn \in {"maybe", "must", "or"}
     /\ SameCall(prev, fn, ty, key, dflt)
     /\ qPrev) =>
        result = prev.result

\* or has returned the value of the variable twice in a row
C8_Witness ==
    /\ SawParseable
    /\ fn = "or"
    /\ SameCall(prev, fn, ty, key, dflt)
    /\ qPrev
    /\ result = prev.result
    /\ result # Ok(dflt)

\* what a call returns when its read of the environment gives r
Outcome(f, t, k, d, r) ==
    LET p == parse(t, r.text)
        lift(reason) == CASE f = "must"     -> MustValue(reason)
                          [] f = "or_parse" -> OrParseValue(reason)
                          [] OTHER          -> reason
    IN  CASE r.kind = "NotUnicode" ->
                Err([key |-> k, reason |-> lift(NonUnicode)])
          [] r.kind = "Ok" /\ ~p.ok ->
                Err([key |-> k, reason |-> lift(ParseErr(p.err))])
          [] r.kind = "Ok" /\ p.ok ->
                IF f = "maybe" THEN Ok(Some(p.val)) ELSE Ok(p.val)
          [] r.kind = "NotPresent" ->
                CASE f = "maybe" -> Ok(None)
                  [] f = "must" -> Err([key |-> k, reason |-> NotSet])
                  [] f \in {"or", "or_else"} -> Ok(d)
                  [] f = "or_parse" ->
                        IF parse(t, d.s).ok THEN Ok(parse(t, d.s).val)
                        ELSE Err([key |-> k,
                                  reason |-> ParseDefault(parse(t, d.s).err)])

\* C9: a call reads the environment at most once and never writes it, on
\* every path; what it returns is decided by what that one read gave, also
\* when another thread changes the variable during the call.
C9_SingleRead ==
    [][ /\ pc' # pc => env' = env
        /\ reads' <= 1
        /\ (pc # "done" /\ pc' = "done") =>
              /\ reads' = 1
              /\ result' = Outcome(fn, ty, key, dflt, readLog'[1])
      ]_vars

\* the variable was changed after the call read it, and the call returned
\* the outcome of the value read, which is not the outcome of the new value
C9_Witness ==
    /\ Done
    /\ reads = 1
    /\ env[key] # Saw
    /\ result = Outcome(fn, ty, key, dflt, Saw)
    /\ result # Outcome(fn, ty, key, dflt, env[key])

\* C10: a variable set to the empty string is set, not absent: the empty
\* text is converted once, no default is used, maybe does not return None,
\* must does not fail with NotSet, and the call yields the value the
\* conversion gives or a Parse-classified error, never ParseDefault.
C10_EmptyIsSet ==
    (SawText /\ Saw.text = << >>) =>
        LET p == parse(ty, << >>)
            lifted == fn \in {"must", "or_parse"}
        IN  /\ parses = 1
            /\ dparses = 0
            /\ fcalls = 0
            /\ result # Ok(None)
            /\ p.ok => result = IF fn = "maybe" THEN Ok(Some(p.val))
                                ELSE Ok(p.val)
            /\ ~p.ok =>
                  /\ ~result.ok
                  /\ result.err.key = key
                  /\ result.err.reason.tag \notin {"NotSet", "ParseDefault"}
                  /\ ~lifted => result.err.reason = ParseErr(p.err)
                  /\ lifted => result.err.reason.inner = ParseErr(p.err)

\* or::<String> has returned the empty string, not its non-empty default
C10_Witness ==
    /\ SawText
    /\ Saw.text = << >>
    /\ ty = "String"
    /\ fn = "or"
    /\ dflt = Str(T_two)
    /\ result = Ok(Str(<< >>))

====
